---- MODULE Spec2Model ----
(***************************************************************************)
(* A model of the CiSE (Circular Spring Embedder) layout engine:           *)
(*   src/src/CiSE/CiSELayout.js   the layout pipeline                      *)
(*   src/src/CiSE/CiSECircle.js   the per-cluster circle                   *)
(*                                                                         *)
(* Objects are modelled by handles.  A node handle is its position in      *)
(* `nodes` (creation order), a circle handle its position in `circles`     *)
(* (circle k belongs to cluster id k-1), an edge handle its position in    *)
(* `edges`.  The root graph is handle 0.  A JavaScript value that may be   *)
(* null or undefined is a sequence of length at most one: <<>> is          *)
(* null/undefined, <<v>> is the value v.                                   *)
(***************************************************************************)
EXTENDS Integers, Sequences, FiniteSets

VARIABLES
    input,      \* the arguments of convertToClusteredGraph: nodes, edges, clusters
    pc,         \* the position of the caller in the pipeline
    step,       \* CiSELayout.step
    phase,      \* CiSELayout.phase
    nodes,      \* every CiSENode created so far
    circles,    \* every CiSECircle created so far
    edges,      \* every CiSEEdge created so far
    gm,         \* the graph manager's node partition
    idToLNode,  \* the value convertToClusteredGraph returned, <<>> if none
    cose,       \* the quotient graph doStep2 built and the positions it got back
    reorder,    \* one run of the representative-index computation
    returned,   \* the last call of an accessor of a circle and the value it returned
    avsdf       \* what the circular layout doStep1 ran returned for each circle

vars == <<input, pc, step, phase, nodes, circles, edges, gm, idToLNode, cose, reorder,
          returned, avsdf>>

----------------------------------------------------------------------------
(* Bounds of the model *)

NumNodes == 3
MaxClusters == 2
MaxEdges == 2
\* the largest radius the circular layout returns
MaxRadius == 2
\* the largest coordinate of the origin the spring embedder places its result at
MaxCoord == 1
\* angles are whole multiples of PI / HalfTurn
HalfTurn == 2
\* the largest circle whose incident edges are reordered, and the most original
\* edges one reduced edge stands for
MaxMod == 13
MaxIndices == 3

Ids == 1..NumNodes
\* an id that is the id of no input node
UnknownId == NumNodes + 1
AllIds == Ids \cup {UnknownId}

----------------------------------------------------------------------------
(* Generic helpers *)

Null == <<>>
Some(v) == <<v>>

Range(s) == {s[i] : i \in 1..Len(s)}

NoRepeat(s) == \A i, j \in 1..Len(s) : i # j => s[i] # s[j]

SeqsUpTo(S, n) == UNION {[1..k -> S] : k \in 0..n}

\* Array.prototype.indexOf, 1-based, 0 when absent
IndexOf(s, x) ==
    IF x \in Range(s) THEN CHOOSE i \in 1..Len(s) : s[i] = x /\ \A j \in 1..(i-1) : s[j] # x
    ELSE 0

\* Array.prototype.splice(index, 1)
RemoveAt(s, i) == [k \in 1..(Len(s) - 1) |-> IF k < i THEN s[k] ELSE s[k + 1]]

----------------------------------------------------------------------------
(* The host graph handed to convertToClusteredGraph *)

\* The cytoscape node of an id: its centre and its layout dimensions.  Widths
\* and heights are even, so that the halves taken of them are integers; the
\* nodes of small ids are taller than wide, those of large ids wider than tall.
CytoNode(id) ==
    [id |-> id, x |-> 2 * id, y |-> id, w |-> 2 * id, h |-> 2 * (NumNodes + 1 - id)]

InputNodes == [i \in 1..NumNodes |-> CytoNode(i)]

\* A cluster group: an array of ids, none repeated
Groups(S) == {g \in SeqsUpTo(S, NumNodes) : NoRepeat(g)}

\* The clusters argument: an array of pairwise disjoint groups
ClusterLists(S) ==
    {cl \in SeqsUpTo(Groups(S), MaxClusters) :
        \A i, j \in 1..Len(cl) : i # j => Range(cl[i]) \cap Range(cl[j]) = {}}

\* The edges argument: an array of (source id, target id)
EdgeLists(S) == SeqsUpTo([source : S, target : S], MaxEdges)

\* The inputs whose edges and groups draw their ids from S
InputsOver(S) == [nodes : {InputNodes}, edges : EdgeLists(S), clusters : ClusterLists(S)]

\* Any input, and the inputs every id of which is the id of an input node
Inputs == InputsOver(AllIds)
WellFormedInputs == InputsOver(Ids)

----------------------------------------------------------------------------
(* Objects *)

Root == 0
UNCLUSTERED == 0 - 1

\* new CiSENode(graphManager, loc, size, null), then setId / setClusterId /
\* setAsOnCircleNode and the add to its owner graph.  clusterId is <<>> for a
\* node setClusterId was never called on.
NewNode(id, clusterId, owner, onCircle, loc, w, h) ==
    [id |-> id, clusterId |-> clusterId, owner |-> owner, child |-> Root,
     onCircle |-> onCircle, loc |-> loc, w |-> w, h |-> h,
     index |-> Null, angle |-> Null]

\* The margin the base graph (LGraph) gives every graph it constructs
DEFAULT_GRAPH_MARGIN == 15

\* new CiSECircle(null, graphManager, null), linked to its parent node
NewCircle(parent) ==
    [parent |-> parent, onCircleNodes |-> <<>>, inNodes |-> <<>>, outNodes |-> <<>>,
     intraClusterEdges |-> Null, interClusterEdges |-> Null,
     radius |-> 0, orderMatrix |-> Null, mayBeReversed |-> TRUE,
     margin |-> DEFAULT_GRAPH_MARGIN]

\* Line 201: the bigger margin of a cluster's circle
ClusterMargin(margin) == margin + 15

\* The graph under construction; threw is set when a statement throws
EmptyGraph ==
    [nodes |-> <<>>, circles |-> <<>>, edges |-> <<>>,
     idToLNode |-> [id \in AllIds |-> 0], threw |-> FALSE]

\* idToCytoscapeNode.get(nodeID): <<>> when no input node has that id
IdToCytoscapeNode(in, nodeID) ==
    IF \E i \in 1..Len(in.nodes) : in.nodes[i].id = nodeID
    THEN Some(in.nodes[CHOOSE i \in 1..Len(in.nodes) : in.nodes[i].id = nodeID])
    ELSE Null

\* Top-left corner of a cytoscape node
TopLeft(cy) == <<cy.x - (cy.w \div 2), cy.y - (cy.h \div 2)>>

\* The body of clusters[i].forEach: one member of cluster id i (circle i + 1)
AddMember(g, in, i, nodeID) ==
    LET cy == IdToCytoscapeNode(in, nodeID) IN
    IF g.threw THEN g
    ELSE IF cy = Null THEN [g EXCEPT !.threw = TRUE]
    ELSE
        LET h == Len(g.nodes) + 1
            n == NewNode(nodeID, Some(i), i + 1, TRUE, TopLeft(cy[1]), cy[1].w, cy[1].h)
        IN  [g EXCEPT !.nodes = Append(@, n),
                      !.circles[i + 1].onCircleNodes = Append(@, h),
                      !.circles[i + 1].inNodes = Append(@, h),
                      !.idToLNode[nodeID] = h]

RECURSIVE AddMembers(_, _, _, _, _)
AddMembers(g, in, i, group, k) ==
    IF k > Len(group) THEN g
    ELSE AddMembers(AddMember(g, in, i, group[k]), in, i, group, k + 1)

\* ClusterNodeClusterId with the call of setClusterId left out
ClusterNodeClusterId_Unset(i) == Null

\* Line 191: the cluster id given to the node that stands for cluster i
ClusterNodeClusterId(i) == Some(i)

\* The body of the loop over clusters: cluster id i
AddCluster(g, in, i) ==
    LET h == Len(g.nodes) + 1
        clusterNode == [NewNode(0, ClusterNodeClusterId(i), Root, FALSE, <<0, 0>>, 0, 0)
                           EXCEPT !.child = i + 1]
        g1 == [g EXCEPT !.nodes = Append(@, clusterNode),
                        !.circles = Append(@, [NewCircle(h) EXCEPT
                                                  !.margin = ClusterMargin(@)])]
    IN  AddMembers(g1, in, i, in.clusters[i + 1], 1)

RECURSIVE AddClusters(_, _, _)
AddClusters(g, in, i) ==
    IF i >= Len(in.clusters) \/ g.threw THEN g
    ELSE AddClusters(AddCluster(g, in, i), in, i + 1)

\* The body of the loop over nodes that adds the unclustered ones
AddUnclustered(g, in, i) ==
    LET cy == in.nodes[i]
        clustered == \E c \in 1..Len(in.clusters) : cy.id \in Range(in.clusters[c])
    IN  IF clustered THEN g
        ELSE [g EXCEPT !.nodes = Append(@, NewNode(cy.id, Some(UNCLUSTERED), Root, FALSE,
                                                   TopLeft(cy), cy.w, cy.h)),
                       !.idToLNode[cy.id] = Len(g.nodes) + 1]

RECURSIVE AddAllUnclustered(_, _, _)
AddAllUnclustered(g, in, i) ==
    IF i > Len(in.nodes) \/ g.threw THEN g
    ELSE AddAllUnclustered(AddUnclustered(g, in, i), in, i + 1)

\* IsIntraCluster without the test for the unclustered sentinel
IsIntraCluster_NoSentinel(sourceClusterID, targetClusterID) ==
    sourceClusterID = targetClusterID

\* The test of line 267 that makes an edge intra-cluster
IsIntraCluster(sourceClusterID, targetClusterID) ==
    /\ sourceClusterID = targetClusterID
    /\ sourceClusterID # UNCLUSTERED
    /\ targetClusterID # UNCLUSTERED

\* The graph an edge handed to graphManager.add (line 273) ends up in.
\* InterGraph is the graph manager's own list of inter-graph edges
\* (graphManager.edges, read at line 294): the base graph manager puts an
\* edge there when its ends have different owner graphs, and hands an edge
\* whose ends share their owner to that owner graph.
InterGraph == 0 - 1
HoldingGraph(sourceOwner, targetOwner) ==
    IF sourceOwner = targetOwner THEN sourceOwner ELSE InterGraph

\* AddEdge with the cluster ids read after the self-loop test, so that an
\* edge from an unknown id to itself is skipped like a self-loop
AddEdge_LoopTestFirst(g, in, k) ==
    LET e == in.edges[k]
        sourceNode == g.idToLNode[e.source]
        targetNode == g.idToLNode[e.target]
    IN  IF g.threw THEN g
        ELSE IF sourceNode = targetNode THEN g
        ELSE IF sourceNode = 0 \/ targetNode = 0 THEN [g EXCEPT !.threw = TRUE]
        ELSE
            LET s == g.nodes[sourceNode]
                t == g.nodes[targetNode]
            IN  IF IsIntraCluster(s.clusterId[1], t.clusterId[1])
                THEN [g EXCEPT !.edges = Append(@,
                         [source |-> sourceNode, target |-> targetNode,
                          isIntraCluster |-> TRUE, addedTo |-> "circle",
                          graph |-> s.owner, input |-> k])]
                ELSE [g EXCEPT !.edges = Append(@,
                         [source |-> sourceNode, target |-> targetNode,
                          isIntraCluster |-> FALSE, addedTo |-> "graphManager",
                          graph |-> HoldingGraph(s.owner, t.owner), input |-> k])]

\* The body of the loop over edges: input edge k
AddEdge(g, in, k) ==
    LET e == in.edges[k]
        sourceNode == g.idToLNode[e.source]
        targetNode == g.idToLNode[e.target]
    IN  IF g.threw THEN g
        \* getClusterId() of undefined throws a TypeError
        ELSE IF sourceNode = 0 \/ targetNode = 0 THEN [g EXCEPT !.threw = TRUE]
        ELSE IF sourceNode = targetNode THEN g
        ELSE
            LET s == g.nodes[sourceNode]
                t == g.nodes[targetNode]
            IN  IF IsIntraCluster(s.clusterId[1], t.clusterId[1])
                THEN [g EXCEPT !.edges = Append(@,
                         [source |-> sourceNode, target |-> targetNode,
                          isIntraCluster |-> TRUE, addedTo |-> "circle",
                          graph |-> s.owner, input |-> k])]
                ELSE [g EXCEPT !.edges = Append(@,
                         [source |-> sourceNode, target |-> targetNode,
                          isIntraCluster |-> FALSE, addedTo |-> "graphManager",
                          graph |-> HoldingGraph(s.owner, t.owner), input |-> k])]

RECURSIVE AddEdges(_, _, _)
AddEdges(g, in, k) ==
    IF k > Len(in.edges) \/ g.threw THEN g
    ELSE AddEdges(AddEdge(g, in, k), in, k + 1)

RECURSIVE Concat(_)
Concat(ss) == IF ss = <<>> THEN <<>> ELSE Head(ss) \o Concat(Tail(ss))

\* graph.getNodes(): the nodes a graph owns, in the order they were added
GraphNodes(ns, graph) == SelectSeq([h \in 1..Len(ns) |-> h], LAMBDA h : ns[h].owner = graph)

\* graph.getEdges(): the edges a graph holds, in the order they were added
GraphEdges(es, graph) == SelectSeq([e \in 1..Len(es) |-> e], LAMBDA e : es[e].graph = graph)

\* graphManager.getAllNodes(): the nodes of the root graph, then of each circle
AllNodes(ns, cs) == Concat([k \in 1..(Len(cs) + 1) |-> GraphNodes(ns, k - 1)])

\* graphManager.getAllEdges(): the edges of every graph, then the inter-graph edges
AllEdges(es, cs) ==
    Concat([k \in 1..(Len(cs) + 1) |-> GraphEdges(es, k - 1)]) \o GraphEdges(es, InterGraph)

\* NodePartition with the push to nonOnCircleNodes outside the else branch
NodePartition_NoElse(ns, cs) ==
    [onCircleNodes |-> SelectSeq(AllNodes(ns, cs), LAMBDA h : ns[h].onCircle),
     nonOnCircleNodes |-> AllNodes(ns, cs)]

\* Lines 277-291: the partition of all nodes kept by the graph manager
NodePartition(ns, cs) ==
    [onCircleNodes |-> SelectSeq(AllNodes(ns, cs), LAMBDA h : ns[h].onCircle),
     nonOnCircleNodes |-> SelectSeq(AllNodes(ns, cs), LAMBDA h : ~ns[h].onCircle)]

\* MoveToOutNodes without the removal from the in-node list
MoveToOutNodes_NoSplice(cs, ns, h) ==
    IF ns[h].clusterId[1] # UNCLUSTERED
    THEN LET circle == ns[h].owner
             index == IndexOf(cs[circle].inNodes, h)
         IN  IF index > 0
             THEN [cs EXCEPT ![circle].outNodes = Append(@, h)]
             ELSE cs
    ELSE cs

\* MoveToOutNodes with the test index > 0 in place of index > -1 (0-based), so
\* that the first in-node is never moved
MoveToOutNodes_SkipFirst(cs, ns, h) ==
    IF ns[h].clusterId[1] # UNCLUSTERED
    THEN LET circle == ns[h].owner
             index == IndexOf(cs[circle].inNodes, h)
         IN  IF index > 1
             THEN [cs EXCEPT ![circle].inNodes = RemoveAt(@, index),
                             ![circle].outNodes = Append(@, h)]
             ELSE cs
    ELSE cs

\* Lines 304-313 and 315-324: move one end of an inter-graph edge from the
\* in-node list of its circle to the out-node list, unless it already moved
MoveToOutNodes(cs, ns, h) ==
    IF ns[h].clusterId[1] # UNCLUSTERED
    THEN LET circle == ns[h].owner
             index == IndexOf(cs[circle].inNodes, h)
         IN  IF index > 0
             THEN [cs EXCEPT ![circle].inNodes = RemoveAt(@, index),
                             ![circle].outNodes = Append(@, h)]
             ELSE cs
    ELSE cs

\* Lines 293-325: the loop over graphManager.edges
RECURSIVE DetermineOutNodes(_, _, _, _)
DetermineOutNodes(cs, ns, es, gmEdges) ==
    IF gmEdges = <<>> THEN cs
    ELSE LET e == es[Head(gmEdges)]
         IN  DetermineOutNodes(
                 MoveToOutNodes(MoveToOutNodes(cs, ns, e.source), ns, e.target),
                 ns, es, Tail(gmEdges))

\* convertToClusteredGraph(nodes, edges, clusters): the graph it leaves behind
ConvertToClusteredGraph(in) ==
    LET g1 == AddClusters(EmptyGraph, in, 0)
        g2 == AddAllUnclustered(g1, in, 1)
        g3 == AddEdges(g2, in, 1)
    IN  IF g3.threw THEN g3
        ELSE [g3 EXCEPT !.circles =
                 DetermineOutNodes(g3.circles, g3.nodes, g3.edges,
                                   GraphEdges(g3.edges, InterGraph))]

----------------------------------------------------------------------------
(* The pipeline *)

NoCose == [nodes |-> <<>>, edges |-> <<>>]
NoReorder == [mod |-> 0, gathered |-> <<>>, sorted |-> <<>>, adjusted |-> <<>>, averageIndex |-> Null]
NoAvsdf == <<>>
NoCall == [method |-> "", circle |-> 0, value |-> Null]

\* A static property of the constructor function CiSELayout.  The step and
\* phase constants are set on each instance (lines 93-108), and the statics
\* copied from the base layout (lines 113-116) hold none of these names, so
\* CiSELayout.STEP_1 and the like are undefined.
CiSELayoutStatic(name) == Null

\* The step and phase constants the constructor sets on each instance
\* (lines 93-98 and 105-108)
CiSELayoutInstance(name) ==
    CASE name = "STEP_NOT_STARTED" -> 0
      [] name = "STEP_1" -> 1
      [] name = "STEP_2" -> 2
      [] name = "STEP_3" -> 3
      [] name = "STEP_4" -> 4
      [] name = "STEP_5" -> 5
      [] name = "PHASE_NOT_STARTED" -> 0
      [] name = "PHASE_SWAP_PREPERATION" -> 1
      [] name = "PHASE_PERFORM_SWAP" -> 2
      [] name = "PHASE_OTHER" -> 3

\* new CiSELayout() and its new graph manager: nothing converted yet
Constructed ==
    /\ pc = "constructed"
    /\ step = CiSELayoutStatic("STEP_NOT_STARTED")
    /\ phase = CiSELayoutStatic("PHASE_NOT_STARTED")
    /\ nodes = <<>>
    /\ circles = <<>>
    /\ edges = <<>>
    /\ gm = [onCircleNodes |-> <<>>, nonOnCircleNodes |-> <<>>]
    /\ idToLNode = Null
    /\ cose = NoCose
    /\ reorder = NoReorder
    /\ returned = NoCall
    /\ avsdf = NoAvsdf

Init == input \in WellFormedInputs /\ Constructed

\* convertToClusteredGraph(nodes, edges, clusters)
Convert ==
    /\ pc = "constructed"
    /\ LET g == ConvertToClusteredGraph(input)
       IN  /\ nodes' = g.nodes
           /\ circles' = g.circles
           /\ edges' = g.edges
           /\ IF g.threw
              THEN /\ pc' = "threw"
                   /\ idToLNode' = Null
                   /\ gm' = gm
              ELSE /\ pc' = "built"
                   /\ idToLNode' = Some(g.idToLNode)
                   /\ gm' = NodePartition(g.nodes, g.circles)
    /\ UNCHANGED <<input, step, phase, cose, reorder, returned, avsdf>>

----------------------------------------------------------------------------
(* Step 1: the circular layout of each cluster *)

Perms(N) == {p \in [1..N -> 0..(N - 1)] : \A i, j \in 1..N : i # j => p[i] # p[j]}

PI == HalfTurn
TWO_PI == 2 * HalfTurn

\* What the AVSDF layout returns for a circle of N nodes: the circular index
\* of each node (by position in clusteredNodes), the radius, and with them
\* the angle and the location of the node at each index and the location of
\* the layout's root node.
AvsdfOutcomes(N) == [index : Perms(N), radius : 1..MaxRadius]
AvsdfAngle(o, N, k) == (o.index[k] * TWO_PI) \div N
AvsdfLocation(o, N, k) == <<o.radius + o.index[k], o.radius - o.index[k]>>
AvsdfParentLocation(o) == <<o.radius, 2 * o.radius>>

\* Lines 392-400: reflect the layout back to the on-circle nodes
ReflectAvsdf(ns, clusteredNodes, o) ==
    [h \in 1..Len(ns) |->
        LET k == IndexOf(clusteredNodes, h)
            N == Len(clusteredNodes)
        IN  IF k = 0 THEN ns[h]
            ELSE [ns[h] EXCEPT !.loc = AvsdfLocation(o, N, k),
                               !.index = Some(o.index[k]),
                               !.angle = Some(AvsdfAngle(o, N, k))]]

\* CompareIndex with its operands exchanged
CompareIndex_Reversed(ns, a, b) == ns[b].index[1] - ns[a].index[1]

\* The comparator of line 405
CompareIndex(ns, a, b) == ns[a].index[1] - ns[b].index[1]

\* Array.prototype.sort(compare): a stable insertion of x into a sorted array
RECURSIVE InsertSorted(_, _, _)
InsertSorted(ns, sorted, x) ==
    IF sorted = <<>> THEN <<x>>
    ELSE IF CompareIndex(ns, sorted[Len(sorted)], x) <= 0 THEN Append(sorted, x)
    ELSE Append(InsertSorted(ns, SubSeq(sorted, 1, Len(sorted) - 1), x),
                sorted[Len(sorted)])

RECURSIVE SortByIndex(_, _)
SortByIndex(ns, s) ==
    IF s = <<>> THEN <<>>
    ELSE InsertSorted(ns, SortByIndex(ns, SubSeq(s, 1, Len(s) - 1)), s[Len(s)])

\* Number.MIN_SAFE_INTEGER, -(2^53 - 1), the value the search for the largest
\* dimension starts from.  It is held here as the least value of the model's
\* integers short of one, which like it lies below every dimension.
MIN_SAFE_INTEGER == 0 - 2147483647

\* CiSECircle.js lines 128-141: the largest width or height among the
\* on-circle nodes from position i on, max being the largest found before
RECURSIVE MaxOnCircleNodeDimension(_, _, _, _)
MaxOnCircleNodeDimension(ns, onCircleNodes, i, max) ==
    IF i > Len(onCircleNodes) THEN max
    ELSE LET node == ns[onCircleNodes[i]]
             afterWidth == IF node.w > max THEN node.w ELSE max
             afterHeight == IF node.h > afterWidth THEN node.h ELSE afterWidth
         IN  MaxOnCircleNodeDimension(ns, onCircleNodes, i + 1, afterHeight)

\* ParentNodeDimension with the margin left out
ParentNodeDimension_NoMargin(radius, margin, maxOnCircleNodeDimension) ==
    2 * radius + maxOnCircleNodeDimension

\* CiSECircle.js line 143: the width and height of the parent node
ParentNodeDimension(radius, margin, maxOnCircleNodeDimension) ==
    2 * (radius + margin) + maxOnCircleNodeDimension

\* CiSECircle.calculateParentNodeDimension(): the dimension it sets
CalculateParentNodeDimension(c, ns) ==
    ParentNodeDimension(c.radius, c.margin,
        MaxOnCircleNodeDimension(ns, c.onCircleNodes, 1, MIN_SAFE_INTEGER))

\* AvsdfCircleHasNodes with the test left out
AvsdfCircleHasNodes_Always(clusteredNodes) == TRUE

\* Line 410: the AVSDF circle, which got one node for each on-circle node
\* (lines 353-364), has a node
AvsdfCircleHasNodes(clusteredNodes) == Len(clusteredNodes) > 0

\* The body of the loop of doStep1 for circle k, the layout returning o
RECURSIVE Step1Circles(_, _, _, _)
Step1Circles(ns, cs, outcomes, k) ==
    IF k > Len(cs) THEN [nodes |-> ns, circles |-> cs]
    ELSE
        LET clusteredNodes == cs[k].onCircleNodes
            o == outcomes[k]
            ns1 == ReflectAvsdf(ns, clusteredNodes, o)
            cs1 == [cs EXCEPT ![k].onCircleNodes = SortByIndex(ns1, clusteredNodes)]
            cs2 == [cs1 EXCEPT ![k].radius = o.radius]
            dimension == CalculateParentNodeDimension(cs2[k], ns1)
        IN  IF AvsdfCircleHasNodes(clusteredNodes)
            THEN Step1Circles(
                     [ns1 EXCEPT ![cs[k].parent].loc = AvsdfParentLocation(o),
                                 ![cs[k].parent].h = dimension,
                                 ![cs[k].parent].w = dimension],
                     cs2, outcomes, k + 1)
            ELSE Step1Circles(ns1, cs1, outcomes, k + 1)

\* doStep1()
DoStep1 ==
    /\ pc = "built"
    /\ \E outcomes \in [1..Len(circles) -> UNION {AvsdfOutcomes(N) : N \in 0..NumNodes}] :
          /\ \A k \in 1..Len(circles) :
                outcomes[k] \in AvsdfOutcomes(Len(circles[k].onCircleNodes))
          /\ LET r == Step1Circles(nodes, circles, outcomes, 1)
             IN  /\ nodes' = r.nodes
                 /\ circles' = r.circles
          /\ avsdf' = outcomes
    /\ step' = CiSELayoutStatic("STEP_1")
    /\ phase' = CiSELayoutStatic("PHASE_OTHER")
    /\ pc' = "step1"
    /\ UNCHANGED <<input, edges, gm, idToLNode, cose, reorder, returned>>

----------------------------------------------------------------------------
(* Step 2: the spring embedder on the quotient graph *)

\* Lines 491-499: the node that stands for a node in the quotient graph
ReducedNode(ns, cs, h) == IF ns[h].onCircle THEN cs[ns[h].owner].parent ELSE h

\* IsInterClusterPair without the test
IsInterClusterPair_Always(sourceIndex, targetIndex) == TRUE

\* Line 507: the two ends are different nodes of the quotient graph
IsInterClusterPair(sourceIndex, targetIndex) == sourceIndex # targetIndex

\* Lines 510-511: no edge has been created yet for this pair
PairIsFree(nodePairs, sourceIndex, targetIndex) ==
    nodePairs[sourceIndex][targetIndex] = 0 /\ nodePairs[targetIndex][sourceIndex] = 0

\* Lines 519-520: remember the edge created for this pair
MarkPair(nodePairs, sourceIndex, targetIndex, newEdge) ==
    [nodePairs EXCEPT ![sourceIndex][targetIndex] = newEdge,
                      ![targetIndex][sourceIndex] = newEdge]

\* The body of the loop over all edges (lines 486-529) for cise edge e;
\* st holds newCoSEEdges, each with its list in coseEdgeToCiseEdges, and nodePairs
Step2Edge(st, ns, cs, es, nonOnCircleNodes, e) ==
    LET sourceIndex == IndexOf(nonOnCircleNodes, ReducedNode(ns, cs, es[e].source))
        targetIndex == IndexOf(nonOnCircleNodes, ReducedNode(ns, cs, es[e].target))
    IN  IF IsInterClusterPair(sourceIndex, targetIndex)
        THEN IF PairIsFree(st.nodePairs, sourceIndex, targetIndex)
             THEN [edges |-> Append(st.edges, [source |-> sourceIndex,
                                               target |-> targetIndex,
                                               ciseEdges |-> <<e>>]),
                   nodePairs |-> MarkPair(st.nodePairs, sourceIndex, targetIndex,
                                          Len(st.edges) + 1)]
             ELSE LET newEdge == st.nodePairs[sourceIndex][targetIndex]
                  IN  [st EXCEPT !.edges[newEdge].ciseEdges = Append(@, e)]
        ELSE st

RECURSIVE Step2Edges(_, _, _, _, _, _)
Step2Edges(st, ns, cs, es, nonOnCircleNodes, allEdges) ==
    IF allEdges = <<>> THEN st
    ELSE Step2Edges(Step2Edge(st, ns, cs, es, nonOnCircleNodes, Head(allEdges)),
                    ns, cs, es, nonOnCircleNodes, Tail(allEdges))

\* Lines 478-529: the edges of the quotient graph
ReducedEdges(ns, cs, es, nonOnCircleNodes) ==
    LET n == Len(nonOnCircleNodes)
        nodePairs == [i \in 1..n |-> [j \in 1..n |-> 0]]
    IN  Step2Edges([edges |-> <<>>, nodePairs |-> nodePairs], ns, cs, es,
                   nonOnCircleNodes, AllEdges(es, cs)).edges

\* What the spring embedder returns for n nodes: the location of each, a row
\* of distinct places that starts at one of the origins <<o, MaxCoord - o>>
CoseOutcomes(n) == {[i \in 1..n |-> <<o + i, MaxCoord - o + 2 * i>>] : o \in 0..MaxCoord}

\* Lines 538-544: the location of a non-on-circle node after the embedder ran
NonOnCircleLocation(ns, nonOnCircleNodes, locs, h) ==
    IF IndexOf(nonOnCircleNodes, h) > 0 THEN locs[IndexOf(nonOnCircleNodes, h)]
    ELSE ns[h].loc

\* OnCircleLocation with the parent's x added to both coordinates
OnCircleLocation_XTwice(loc, parentLoc) == <<loc[1] + parentLoc[1], loc[2] + parentLoc[1]>>

\* Lines 551-557: the location of an on-circle node, its parent being at parentLoc
OnCircleLocation(loc, parentLoc) == <<loc[1] + parentLoc[1], loc[2] + parentLoc[2]>>

\* The number of times h occurs in s
Occurrences(s, h) == Cardinality({i \in 1..Len(s) : s[i] = h})

RECURSIVE Translate(_, _, _)
Translate(loc, parentLoc, times) ==
    IF times = 0 THEN loc
    ELSE Translate(OnCircleLocation(loc, parentLoc), parentLoc, times - 1)

\* Lines 536-557: reflect the embedder's locations back to the cise nodes
ReflectCose(ns, cs, g, locs) ==
    LET ns1 == [h \in 1..Len(ns) |->
                   [ns[h] EXCEPT !.loc = NonOnCircleLocation(ns, g.nonOnCircleNodes, locs, h)]]
    IN  [h \in 1..Len(ns) |->
            IF Occurrences(g.onCircleNodes, h) > 0
            THEN [ns1[h] EXCEPT !.loc = Translate(@, ns1[cs[ns1[h].owner].parent].loc,
                                                  Occurrences(g.onCircleNodes, h))]
            ELSE ns1[h]]

\* doStep2()
DoStep2 ==
    /\ pc = "step1"
    /\ \E locs \in CoseOutcomes(Len(gm.nonOnCircleNodes)) :
          /\ cose' = [nodes |-> [i \in 1..Len(gm.nonOnCircleNodes) |->
                                    [cise |-> gm.nonOnCircleNodes[i], loc |-> locs[i]]],
                      edges |-> ReducedEdges(nodes, circles, edges, gm.nonOnCircleNodes)]
          /\ nodes' = ReflectCose(nodes, circles, gm, locs)
    /\ step' = CiSELayoutStatic("STEP_2")
    /\ phase' = CiSELayoutStatic("PHASE_OTHER")
    /\ pc' = "step2"
    /\ UNCHANGED <<input, circles, edges, gm, idToLNode, reorder, returned, avsdf>>

----------------------------------------------------------------------------
(* Reversal preparation *)

\* CiSEOnCircleNodeExt.getInterClusterEdges(): the inter-cluster edges
\* incident to node h, in the order they were added
NodeInterClusterEdges(es, h) ==
    SelectSeq([e \in 1..Len(es) |-> e],
              LAMBDA e : ~es[e].isIntraCluster /\ (es[e].source = h \/ es[e].target = h))

\* CiSECircle.getInterClusterEdges(): the value of the field interClusterEdges
\* when the call returns (the call returns that field)
InterClusterEdges(c, es) ==
    IF c.interClusterEdges = Null
    THEN Some(Concat([i \in 1..Len(c.outNodes) |-> NodeInterClusterEdges(es, c.outNodes[i])]))
    ELSE c.interClusterEdges

\* Lines 208-214: the angle from node i to node j, brought into [0, TWO_PI)
AngleDiff(angleI, angleJ) ==
    IF angleJ - angleI < 0 THEN angleJ - angleI + TWO_PI ELSE angleJ - angleI

\* Lines 216-225: the entries written for a pair i < j
UpperEntry(angleDiff) == angleDiff <= PI
\* LowerEntry with the half turn counted on both sides
LowerEntry_AtLeast(angleDiff) == angleDiff >= PI
LowerEntry(angleDiff) == ~(angleDiff <= PI)

\* CiSECircle.computeOrderMatrix(): the matrix it leaves in orderMatrix.  A
\* slot never written is <<>>.
ComputeOrderMatrix(c, ns) ==
    LET N == Len(c.onCircleNodes)
        angle(i) == ns[c.onCircleNodes[i]].angle[1]
    IN  [i \in 1..N |-> [j \in 1..N |->
            IF j > i THEN Some(UpperEntry(AngleDiff(angle(i), angle(j))))
            ELSE IF i > j THEN Some(LowerEntry(AngleDiff(angle(j), angle(i))))
            ELSE Null]]

\* TooFewToReverse with two edges counted as too few
TooFewToReverse_AtMostTwo(count) == count <= 2

\* Line 712: the circle has too few inter-cluster edges to be reversed
TooFewToReverse(count) == count < 2

\* The body of the loop of prepareCirclesForReversal for one circle
PrepareCircle(c, ns, es) ==
    LET inter == InterClusterEdges(c, es)
    IN  [c EXCEPT !.interClusterEdges = inter,
                  !.mayBeReversed = IF TooFewToReverse(Len(inter[1])) THEN FALSE ELSE @,
                  !.orderMatrix = Some(ComputeOrderMatrix(c, ns))]

\* prepareCirclesForReversal(): every node of the root graph that has a child
PrepareCirclesForReversal ==
    /\ pc = "step2"
    /\ circles' = [k \in 1..Len(circles) |->
                      IF \E h \in Range(GraphNodes(nodes, Root)) : nodes[h].child = k
                      THEN PrepareCircle(circles[k], nodes, edges)
                      ELSE circles[k]]
    /\ pc' = "prepared"
    /\ UNCHANGED <<input, step, phase, nodes, edges, gm, idToLNode, cose, reorder,
                   returned, avsdf>>

Next ==
    \/ Convert
    \/ DoStep1
    \/ DoStep2
    \/ PrepareCirclesForReversal

Spec == Init /\ [][Next]_vars

----------------------------------------------------------------------------
(* The methods of one circle, called on a circle of any angles *)

\* A lone cluster of N nodes to which the circular layout gave the angles a
CircleWithAngles(N, a) ==
    LET g == ConvertToClusteredGraph(
                 [nodes |-> InputNodes, edges |-> <<>>, clusters |-> <<[i \in 1..N |-> i]>>])
    IN  [g EXCEPT !.nodes = [h \in 1..Len(g.nodes) |->
                                IF g.nodes[h].onCircle
                                THEN [g.nodes[h] EXCEPT !.index = Some(g.nodes[h].id - 1),
                                                        !.angle = Some(a[g.nodes[h].id])]
                                ELSE g.nodes[h]]]

InitCircle ==
    \E N \in 0..NumNodes : \E a \in [1..N -> 0..(TWO_PI - 1)] :
        LET g == CircleWithAngles(N, a)
        IN  /\ input = [nodes |-> InputNodes, edges |-> <<>>,
                        clusters |-> <<[i \in 1..N |-> i]>>]
            /\ pc = "step1"
            /\ step = CiSELayoutStatic("STEP_1")
            /\ phase = CiSELayoutStatic("PHASE_OTHER")
            /\ nodes = g.nodes
            /\ circles = g.circles
            /\ edges = g.edges
            /\ gm = NodePartition(g.nodes, g.circles)
            /\ idToLNode = Some(g.idToLNode)
            /\ cose = NoCose
            /\ reorder = NoReorder
            /\ returned = NoCall
            /\ avsdf = NoAvsdf

\* circle.computeOrderMatrix() on circle k
CallComputeOrderMatrix(k) ==
    /\ circles[k].orderMatrix = Null
    /\ circles' = [circles EXCEPT ![k].orderMatrix = Some(ComputeOrderMatrix(circles[k], nodes))]
    /\ UNCHANGED <<input, pc, step, phase, nodes, edges, gm, idToLNode, cose, reorder,
                 returned, avsdf>>

NextCircle == \E k \in 1..Len(circles) : CallComputeOrderMatrix(k)

SpecCircle == InitCircle /\ [][NextCircle]_vars

----------------------------------------------------------------------------
(* The memoizing accessors of a circle, called after the conversion *)

\* CiSECircle.js lines 178-186: the value of the field intraClusterEdges of
\* circle k when getIntraClusterEdges returns
IntraClusterEdges(c, k, es) ==
    IF c.intraClusterEdges = Null
    THEN Some(SelectSeq(GraphEdges(es, k), LAMBDA e : es[e].isIntraCluster))
    ELSE c.intraClusterEdges

\* CiSECircle.js line 188: the field getIntraClusterEdges returns
GetIntraClusterEdgesResult(c) == c.interClusterEdges

\* circle.getInterClusterEdges() on circle k
GetInterClusterEdges(k) ==
    /\ pc = "built"
    /\ circles' = [circles EXCEPT ![k].interClusterEdges = InterClusterEdges(circles[k], edges)]
    /\ returned' = [method |-> "getInterClusterEdges", circle |-> k,
                    value |-> circles'[k].interClusterEdges]
    /\ UNCHANGED <<input, pc, step, phase, nodes, edges, gm, idToLNode, cose, reorder,
                   avsdf>>

\* circle.getIntraClusterEdges() on circle k
GetIntraClusterEdges(k) ==
    /\ pc = "built"
    /\ circles' = [circles EXCEPT ![k].intraClusterEdges =
                                      IntraClusterEdges(circles[k], k, edges)]
    /\ returned' = [method |-> "getIntraClusterEdges", circle |-> k,
                    value |-> GetIntraClusterEdgesResult(circles'[k])]
    /\ UNCHANGED <<input, pc, step, phase, nodes, edges, gm, idToLNode, cose, reorder,
                   avsdf>>

NextAccessors ==
    \/ Convert
    \/ \E k \in 1..Len(circles) : GetInterClusterEdges(k)
    \/ \E k \in 1..Len(circles) : GetIntraClusterEdges(k)

SpecAccessors == Init /\ [][NextAccessors]_vars

----------------------------------------------------------------------------
(* Conversion of any input, well formed or not *)

InitAnyInput == input \in Inputs /\ Constructed

SpecAnyInput == InitAnyInput /\ [][Convert]_vars

----------------------------------------------------------------------------
(* Incident-edge reordering: the representative index of one reduced edge *)

\* String(n) for n >= 0, as the sequence of its decimal digits
RECURSIVE DecimalString(_)
DecimalString(n) == IF n < 10 THEN <<n>> ELSE Append(DecimalString(n \div 10), n % 10)

\* a < b as strings, by code units
RECURSIVE StringLess(_, _)
StringLess(a, b) ==
    IF b = <<>> THEN FALSE
    ELSE IF a = <<>> THEN TRUE
    ELSE IF Head(a) # Head(b) THEN Head(a) < Head(b)
    ELSE StringLess(Tail(a), Tail(b))

\* The default comparison of Array.prototype.sort(): x sorts after y
SortsAfter(x, y) == StringLess(DecimalString(y), DecimalString(x))

RECURSIVE InsertDefault(_, _)
InsertDefault(sorted, x) ==
    IF sorted = <<>> THEN <<x>>
    ELSE IF ~SortsAfter(sorted[Len(sorted)], x) THEN Append(sorted, x)
    ELSE Append(InsertDefault(SubSeq(sorted, 1, Len(sorted) - 1), x), sorted[Len(sorted)])

\* Line 604: edgeIndices.sort()
RECURSIVE DefaultSort(_)
DefaultSort(s) ==
    IF s = <<>> THEN <<>>
    ELSE InsertDefault(DefaultSort(SubSeq(s, 1, Len(s) - 1)), s[Len(s)])

\* IsLargerGap with a gap as large as the largest also replacing it
IsLargerGap_OrEqual(gap, largestGap) == gap >= largestGap

\* Line 637: a gap replaces the largest gap found so far
IsLargerGap(gap, largestGap) == gap > largestGap

\* Lines 616-647: the scan for the largest gap between adjacent indices.
\* Positions are 0-based as in the code; edgeIndex <<>> is null.
GapScanStart ==
    [indexLargestGapStart |-> 0 - 1, largestGap |-> 0 - 1, edgeIndex |-> Null,
     firstEdgeIndex |-> 0 - 1, edgeIndexPos |-> 0 - 1]

GapScanStep(st, next) ==
    LET prevEdgeIndex == st.edgeIndex
        pos == st.edgeIndexPos + 1
        st1 == [st EXCEPT !.edgeIndex = Some(next), !.edgeIndexPos = pos]
    IN  IF prevEdgeIndex # Null
        THEN IF IsLargerGap(next - prevEdgeIndex[1], st.largestGap)
             THEN [st1 EXCEPT !.largestGap = next - prevEdgeIndex[1],
                              !.indexLargestGapStart = pos - 1]
             ELSE st1
        ELSE [st1 EXCEPT !.firstEdgeIndex = next]

RECURSIVE GapScan(_, _, _)
GapScan(st, edgeIndices, z) ==
    IF z > Len(edgeIndices) THEN st
    ELSE GapScan(GapScanStep(st, edgeIndices[z]), edgeIndices, z + 1)

\* Lines 649-653: the gap from the last index round to the first
WrapAround(st, mod) ==
    IF st.firstEdgeIndex # 0 - 1 /\ (st.firstEdgeIndex + mod - st.edgeIndex[1]) > st.largestGap
    THEN [st EXCEPT !.largestGap = st.firstEdgeIndex + mod - st.edgeIndex[1],
                    !.indexLargestGapStart = st.edgeIndexPos]
    ELSE st

\* Lines 658-669: the indices after the start of the largest gap, less mod
AdjustIndices(edgeIndices, st, mod) ==
    IF st.largestGap > 0
    THEN [k \in 1..Len(edgeIndices) |->
             IF k - 1 >= st.indexLargestGapStart + 1 THEN edgeIndices[k] - mod
             ELSE edgeIndices[k]]
    ELSE edgeIndices

RECURSIVE Sum(_)
Sum(s) == IF s = <<>> THEN 0 ELSE Head(s) + Sum(Tail(s))

\* AverageIndex without the correction of a negative average
AverageIndex_NoWrap(edgeIndices, mod) ==
    [num |-> Sum(edgeIndices), den |-> Len(edgeIndices)]

\* Lines 671-686: the average, the fraction num / den with den > 0
AverageIndex(edgeIndices, mod) ==
    LET totalIndex == Sum(edgeIndices)
        edgeCount == Len(edgeIndices)
    IN  IF totalIndex < 0
        THEN [num |-> totalIndex + mod * edgeCount, den |-> edgeCount]
        ELSE [num |-> totalIndex, den |-> edgeCount]

\* Lines 604-688 on the indices gathered for one reduced edge
RepresentativeIndex(gathered, mod) ==
    LET sorted == DefaultSort(gathered)
        st == WrapAround(GapScan(GapScanStart, sorted, 1), mod)
        adjusted == AdjustIndices(sorted, st, mod)
    IN  [sorted |-> sorted, adjusted |-> adjusted,
         averageIndex |-> AverageIndex(adjusted, mod)]

\* A circle of mod on-circle nodes and the indices of the original edges of
\* one reduced edge incident to it, in the order they were gathered
InitReorder ==
    /\ \E mod \in 1..MaxMod : \E n \in 1..MaxIndices : \E gathered \in [1..n -> 0..(mod - 1)] :
          reorder = [mod |-> mod, gathered |-> gathered, sorted |-> <<>>,
                     adjusted |-> <<>>, averageIndex |-> Null]
    /\ input = [nodes |-> InputNodes, edges |-> <<>>, clusters |-> <<>>]
    /\ pc = "step2"
    /\ step = CiSELayoutStatic("STEP_2")
    /\ phase = CiSELayoutStatic("PHASE_OTHER")
    /\ nodes = <<>>
    /\ circles = <<>>
    /\ edges = <<>>
    /\ gm = [onCircleNodes |-> <<>>, nonOnCircleNodes |-> <<>>]
    /\ idToLNode = Null
    /\ cose = NoCose
    /\ returned = NoCall
    /\ avsdf = NoAvsdf

\* The body of the loop over the incident reduced edges (lines 589-689)
ReorderIncidentEdge ==
    /\ reorder.averageIndex = Null
    /\ LET r == RepresentativeIndex(reorder.gathered, reorder.mod)
       IN  reorder' = [reorder EXCEPT !.sorted = r.sorted, !.adjusted = r.adjusted,
                                      !.averageIndex = Some(r.averageIndex)]
    /\ UNCHANGED <<input, pc, step, phase, nodes, circles, edges, gm, idToLNode, cose,
                 returned, avsdf>>

SpecReorder == InitReorder /\ [][ReorderIncidentEdge]_vars

----------------------------------------------------------------------------
(* Properties of the cluster graph builder *)

Converted == pc \in {"built", "step1", "step2", "prepared"}

\* The handles of the on-circle nodes of circle k
OnCircleSet(k) == {h \in 1..Len(nodes) : nodes[h].onCircle /\ nodes[h].owner = k}

\* The inter-cluster edges incident to node h
InterClusterEdgesAt(h) ==
    {e \in 1..Len(edges) : ~edges[e].isIntraCluster
                           /\ (edges[e].source = h \/ edges[e].target = h)}

\* C1: once convertToClusteredGraph has returned, and at every later point of
\* the pipeline, the inNodes and outNodes of every circle are disjoint, hold
\* no node twice, and together hold exactly the on-circle nodes of the circle
\* (the cluster groups of the input being disjoint and free of repeated ids).
C1_InOutPartition ==
    Converted =>
        \A k \in 1..Len(circles) :
            /\ Range(circles[k].inNodes) \cap Range(circles[k].outNodes) = {}
            /\ NoRepeat(circles[k].inNodes)
            /\ NoRepeat(circles[k].outNodes)
            /\ Range(circles[k].inNodes) \cup Range(circles[k].outNodes)
                   = Range(circles[k].onCircleNodes)
            /\ Range(circles[k].onCircleNodes) = OnCircleSet(k)

\* A circle with an in-node and an out-node that two inter-cluster edges
\* touch, at the end of the pipeline
C1_Witness ==
    /\ pc = "prepared"
    /\ \E k \in 1..Len(circles) :
          /\ Len(circles[k].inNodes) >= 1
          /\ \E i \in 1..Len(circles[k].outNodes) :
                Cardinality(InterClusterEdgesAt(circles[k].outNodes[i])) >= 2

\* C2: after convertToClusteredGraph an on-circle node is an out-node of its
\* circle exactly when an inter-cluster edge is incident to it, and every
\* inter-cluster edge has an end that is an out-node or an unclustered node.
C2_OutNodesAreInterClusterEnds ==
    Converted =>
        /\ \A h \in 1..Len(nodes) :
              nodes[h].onCircle =>
                  (h \in Range(circles[nodes[h].owner].outNodes)
                      <=> InterClusterEdgesAt(h) # {})
        /\ \A e \in 1..Len(edges) :
              ~edges[e].isIntraCluster =>
                  \E h \in {edges[e].source, edges[e].target} :
                      \/ nodes[h].clusterId = Some(UNCLUSTERED)
                      \/ /\ nodes[h].onCircle
                         /\ h \in Range(circles[nodes[h].owner].outNodes)

\* An inter-cluster edge between two circles, one of which also keeps an
\* in-node
C2_Witness ==
    /\ pc = "built"
    /\ \E e \in 1..Len(edges) :
          /\ ~edges[e].isIntraCluster
          /\ nodes[edges[e].source].onCircle /\ nodes[edges[e].target].onCircle
    /\ \E k \in 1..Len(circles) : circles[k].inNodes # <<>> /\ circles[k].outNodes # <<>>

\* The group of the input that lists id, 0 when none does
GroupOf(id) ==
    IF \E c \in 1..Len(input.clusters) : id \in Range(input.clusters[c])
    THEN CHOOSE c \in 1..Len(input.clusters) : id \in Range(input.clusters[c])
    ELSE 0

\* The edges created for input edge k
CreatedFor(k) == {e \in 1..Len(edges) : edges[e].input = k}

\* C3: every input edge with two distinct ends creates exactly one edge, from
\* the node of its source id to the node of its target id, which is
\* intra-cluster exactly when both ids are listed by the same group; an
\* intra-cluster edge is added to the circle of that group and any other edge
\* through the graph manager; an input edge from an id to itself creates none.
C3_EdgeClassification ==
    Converted =>
        \A k \in 1..Len(input.edges) :
            LET src == input.edges[k].source
                tgt == input.edges[k].target
                intra == GroupOf(src) = GroupOf(tgt) /\ GroupOf(src) # 0
            IN  IF src = tgt THEN CreatedFor(k) = {}
                ELSE /\ Cardinality(CreatedFor(k)) = 1
                     /\ \A e \in CreatedFor(k) :
                           /\ nodes[edges[e].source].id = src
                           /\ nodes[edges[e].target].id = tgt
                           /\ edges[e].isIntraCluster = intra
                           /\ intra => /\ edges[e].addedTo = "circle"
                                       /\ edges[e].graph = GroupOf(src)
                           /\ ~intra => edges[e].addedTo = "graphManager"

\* An input with a self-loop and an edge between two unclustered nodes
C3_Witness ==
    /\ pc = "built"
    /\ \E k, l \in 1..Len(input.edges) :
          /\ input.edges[k].source = input.edges[k].target
          /\ input.edges[l].source # input.edges[l].target
          /\ GroupOf(input.edges[l].source) = 0
          /\ GroupOf(input.edges[l].target) = 0
          /\ CreatedFor(l) # {}

----------------------------------------------------------------------------
(* Properties of the order matrix *)

\* The angle of the node at position i (from 1) of circle k
AngleAt(k, i) == nodes[circles[k].onCircleNodes[i]].angle[1]

\* C4: after computeOrderMatrix on a circle of N on-circle nodes, for all
\* positions i # j the entry [i][j] is a boolean and the negation of the
\* entry [j][i], and no entry [i][i] has been written, whatever the angles.
C4_OrderMatrixAntisymmetric ==
    \A k \in 1..Len(circles) :
        circles[k].orderMatrix # Null =>
            LET m == circles[k].orderMatrix[1]
                N == Len(circles[k].onCircleNodes)
            IN  /\ Len(m) = N
                /\ \A i \in 1..N : Len(m[i]) = N
                /\ \A i, j \in 1..N :
                      IF i = j THEN m[i][j] = Null
                      ELSE /\ m[i][j] \in {Some(TRUE), Some(FALSE)}
                           /\ m[i][j][1] = ~m[j][i][1]

\* The matrix of a circle of three nodes, two at the same angle and the
\* third half a turn from them
C4_Witness ==
    \E k \in 1..Len(circles) :
        /\ circles[k].orderMatrix # Null
        /\ Len(circles[k].onCircleNodes) = 3
        /\ AngleAt(k, 1) = AngleAt(k, 2)
        /\ AngleAt(k, 3) - AngleAt(k, 1) = PI

----------------------------------------------------------------------------
(* Properties of the reversal preparation *)

\* The inter-cluster edges incident to the out-nodes of circle k
InterClusterEdgesOfCircle(k) ==
    UNION {InterClusterEdgesAt(h) : h \in Range(circles[k].outNodes)}

\* C5: after prepareCirclesForReversal a circle has mayBeReversed = false
\* exactly when fewer than 2 inter-cluster edges are incident to its
\* out-nodes; until then every circle has mayBeReversed = true.
C5_ReversalEligibility ==
    \A k \in 1..Len(circles) :
        IF pc = "prepared"
        THEN circles[k].mayBeReversed = (Cardinality(InterClusterEdgesOfCircle(k)) >= 2)
        ELSE circles[k].mayBeReversed

\* Prepared circles, one with one and one with two inter-cluster edges
C5_Witness ==
    /\ pc = "prepared"
    /\ \E k, l \in 1..Len(circles) :
          /\ Cardinality(InterClusterEdgesOfCircle(k)) = 2
          /\ Cardinality(InterClusterEdgesOfCircle(l)) = 1
          /\ circles[k].mayBeReversed
          /\ ~circles[l].mayBeReversed

----------------------------------------------------------------------------
(* Properties of steps 1 and 2 *)

Occurs(s, x) == Cardinality({i \in 1..Len(s) : s[i] = x})
IsPermutationOf(s, t) ==
    Len(s) = Len(t) /\ \A x \in Range(s) \cup Range(t) : Occurs(s, x) = Occurs(t, x)

\* C9: doStep1 leaves the on-circle node sequence of every circle sorted by
\* ascending circular index, the node at position k (from 0) having the
\* index k the circular layout gave it, and the sequence is a permutation of
\* the one the circle held before.
C9_SortedByIndex ==
    [][(pc = "built" /\ pc' = "step1") =>
          \A k \in 1..Len(circles) :
              LET s == circles'[k].onCircleNodes
              IN  /\ \A i, j \in 1..Len(s) :
                        i < j => nodes'[s[i]].index[1] <= nodes'[s[j]].index[1]
                  /\ \A i \in 1..Len(s) : nodes'[s[i]].index = Some(i - 1)
                  /\ IsPermutationOf(s, circles[k].onCircleNodes)]_vars

\* After doStep1, a circle of three nodes whose sequence is no longer in the
\* order the nodes were created in
C9_Witness ==
    /\ pc = "step1"
    /\ \E k \in 1..Len(circles) :
          /\ Len(circles[k].onCircleNodes) = 3
          /\ circles[k].onCircleNodes # GraphNodes(nodes, k)
          /\ circles[k].onCircleNodes[1] > circles[k].onCircleNodes[3]

\* The position in the quotient graph (from 1) of the node that stands for h
ReducedIndex(h) ==
    IndexOf(gm.nonOnCircleNodes,
            IF nodes[h].onCircle THEN circles[nodes[h].owner].parent ELSE h)

\* The original edges between the members of reduced nodes a and b
EdgesBetween(a, b) ==
    {e \in 1..Len(edges) :
        {ReducedIndex(edges[e].source), ReducedIndex(edges[e].target)} = {a, b}}

\* The reduced edges between reduced nodes a and b
ReducedBetween(a, b) ==
    {r \in 1..Len(cose.edges) : {cose.edges[r].source, cose.edges[r].target} = {a, b}}

\* C7: the quotient graph of doStep2 holds exactly one reduced edge for each
\* unordered pair of distinct reduced nodes with an original edge between
\* their members and none for any other pair, no reduced edge joins a
\* reduced node to itself, and the original-edge list of a reduced edge
\* holds, once each, exactly the original edges between its pair.
C7_QuotientEdges ==
    pc \in {"step2", "prepared"} =>
        /\ Len(cose.nodes) = Len(gm.nonOnCircleNodes)
        /\ \A r \in 1..Len(cose.edges) : cose.edges[r].source # cose.edges[r].target
        /\ \A a, b \in 1..Len(cose.nodes) :
              a # b =>
                  /\ Cardinality(ReducedBetween(a, b))
                         = IF EdgesBetween(a, b) # {} THEN 1 ELSE 0
                  /\ \A r \in ReducedBetween(a, b) :
                        /\ Range(cose.edges[r].ciseEdges) = EdgesBetween(a, b)
                        /\ NoRepeat(cose.edges[r].ciseEdges)
        /\ \A e \in 1..Len(edges) :
              ReducedIndex(edges[e].source) = ReducedIndex(edges[e].target) =>
                  \A r \in 1..Len(cose.edges) : e \notin Range(cose.edges[r].ciseEdges)

\* Two original edges of opposite directions between the same two clusters,
\* collapsed into one reduced edge
C7_Witness ==
    /\ pc = "step2"
    /\ Len(cose.edges) = 1
    /\ \E e, f \in 1..Len(edges) :
          /\ cose.edges[1].ciseEdges = <<e, f>>
          /\ nodes[edges[e].source].owner = nodes[edges[f].target].owner
          /\ nodes[edges[e].target].owner = nodes[edges[f].source].owner
          /\ nodes[edges[e].source].onCircle /\ nodes[edges[e].target].onCircle

\* C8: doStep2 leaves every non-on-circle node at the location the spring
\* embedder returned for its delegate, and every on-circle node at the
\* location it had before doStep2 plus the new location of the placeholder
\* of its circle, in x and in y.
C8_Step2Positions ==
    [][(pc = "step1" /\ pc' = "step2") =>
          /\ \A i \in 1..Len(gm.nonOnCircleNodes) :
                /\ cose'.nodes[i].cise = gm.nonOnCircleNodes[i]
                /\ nodes'[gm.nonOnCircleNodes[i]].loc = cose'.nodes[i].loc
          /\ \A h \in 1..Len(nodes) :
                nodes[h].onCircle =>
                    LET parent == circles[nodes[h].owner].parent
                    IN  /\ nodes'[h].loc[1] = nodes[h].loc[1] + nodes'[parent].loc[1]
                        /\ nodes'[h].loc[2] = nodes[h].loc[2] + nodes'[parent].loc[2]]_vars

\* After doStep2, a graph with an unclustered node and an on-circle node
\* whose placeholder was moved to a place with different x and y
C8_Witness ==
    /\ pc = "step2"
    /\ \E h \in 1..Len(nodes) : nodes[h].clusterId = Some(UNCLUSTERED)
    /\ \E h \in 1..Len(nodes) :
          /\ nodes[h].onCircle
          /\ nodes[circles[nodes[h].owner].parent].loc[1]
                 # nodes[circles[nodes[h].owner].parent].loc[2]

----------------------------------------------------------------------------
(* Properties of the representative index *)

Ascending(s) == \A i, j \in 1..Len(s) : i < j => s[i] <= s[j]

\* The gaps of an ascending list s of indices on a circle of N nodes
ConsecutiveGap(s, i) == s[i + 1] - s[i]
WrapGap(s, N) == s[1] + N - s[Len(s)]

\* The position at which the largest gap starts: the last position when the
\* wraparound gap is strictly larger than every consecutive gap, else the
\* position before the first of the largest consecutive gaps
LargestGapStart(s, N) ==
    IF \A i \in 1..(Len(s) - 1) : WrapGap(s, N) > ConsecutiveGap(s, i)
    THEN Len(s)
    ELSE CHOOSE i \in 1..(Len(s) - 1) :
             /\ \A j \in 1..(Len(s) - 1) : ConsecutiveGap(s, j) <= ConsecutiveGap(s, i)
             /\ \A j \in 1..(i - 1) : ConsecutiveGap(s, j) < ConsecutiveGap(s, i)

\* The sum of the indices, those after the start of the largest gap less N
CorrectedTotal(s, N) ==
    Sum([k \in 1..Len(s) |-> IF k > LargestGapStart(s, N) THEN s[k] - N ELSE s[k]])

\* The fraction f equals total / count, plus N if that is negative
IsCorrectedMean(f, total, count, N) ==
    f.num * count = (IF total < 0 THEN total + N * count ELSE total) * f.den

\* C6: for a non-empty ascending list of indices in 0..N-1 the representative
\* index is the wraparound-corrected mean: N is subtracted from every index
\* after the start of the largest gap (the wraparound gap only when strictly
\* larger than every other, else the first of the largest), the mean is
\* taken, and N is added to a negative mean.  Indices 0, 1, 5 of a circle of
\* 6 give 0 and indices 1, 2, 3 give 2.
C6_RepresentativeIndex ==
    (reorder.averageIndex # Null /\ Ascending(reorder.sorted)) =>
        LET f == reorder.averageIndex[1]
            s == reorder.sorted
            N == reorder.mod
        IN  /\ f.den > 0
            /\ IsCorrectedMean(f, CorrectedTotal(s, N), Len(s), N)
            /\ (N = 6 /\ s = <<0, 1, 5>>) => f.num = 0
            /\ (N = 6 /\ s = <<1, 2, 3>>) => f.num = 2 * f.den

\* The representative index of the indices 5, 0, 1 gathered on a circle of 6
C6_Witness ==
    /\ reorder.mod = 6
    /\ reorder.gathered = <<5, 0, 1>>
    /\ reorder.sorted = <<0, 1, 5>>
    /\ reorder.averageIndex = Some([num |-> 0, den |-> 3])

----------------------------------------------------------------------------
(* Properties of the conversion of ill-formed input *)

InputIds == {input.nodes[i].id : i \in 1..Len(input.nodes)}

\* An edge or a cluster group names an id that no input node has
NamesUnknownId ==
    \/ \E k \in 1..Len(input.edges) :
          input.edges[k].source \notin InputIds \/ input.edges[k].target \notin InputIds
    \/ \E c \in 1..Len(input.clusters) : ~(Range(input.clusters[c]) \subseteq InputIds)

\* C10: convertToClusteredGraph throws, and returns no id-to-node lookup,
\* whenever an input edge or a cluster group names an id that no input node
\* has; it never runs to its end past such an edge or member.
C10_UnknownIdThrows ==
    /\ (pc # "constructed" /\ NamesUnknownId) => (pc = "threw" /\ idToLNode = Null)
    /\ pc = "built" => (~NamesUnknownId /\ idToLNode # Null)

\* The conversion threw on an input whose only unknown id is both ends of
\* its last edge
C10_Witness ==
    /\ pc = "threw"
    /\ Len(input.edges) = 2
    /\ input.edges[1].source \in InputIds /\ input.edges[1].target \in InputIds
    /\ input.edges[2].source \notin InputIds
    /\ input.edges[2].source = input.edges[2].target
    /\ \A c \in 1..Len(input.clusters) : Range(input.clusters[c]) \subseteq InputIds
    /\ Len(edges) = 1

----------------------------------------------------------------------------
(* Properties of the accessors of a circle *)

\* The edges circle k holds whose isIntraCluster flag is true
IntraClusterEdgesOfCircle(k) ==
    {e \in 1..Len(edges) : edges[e].graph = k /\ edges[e].isIntraCluster}

\* C11: every call of getIntraClusterEdges on a circle, the first and every
\* later one, before or after a call of getInterClusterEdges, returns a list
\* that holds, once each, exactly the edges of the circle whose
\* isIntraCluster flag is true.
C11_IntraClusterEdgesReturned ==
    returned.method = "getIntraClusterEdges" =>
        /\ returned.value # Null
        /\ NoRepeat(returned.value[1])
        /\ Range(returned.value[1]) = IntraClusterEdgesOfCircle(returned.circle)

----------------------------------------------------------------------------
(* Properties of the cluster ids *)

\* The cluster id of every node that is not a cluster placeholder: the index
\* of its group for an on-circle node, the sentinel for an unclustered node
MemberClusterIds ==
    \A h \in 1..Len(nodes) :
        nodes[h].child = Root =>
            IF nodes[h].onCircle
            THEN /\ GroupOf(nodes[h].id) # 0
                 /\ nodes[h].clusterId = Some(GroupOf(nodes[h].id) - 1)
                 /\ nodes[h].owner = GroupOf(nodes[h].id)
            ELSE /\ GroupOf(nodes[h].id) = 0
                 /\ nodes[h].clusterId = Some(UNCLUSTERED)

\* C12 as stated: after convertToClusteredGraph a cluster placeholder, a
\* node that owns a child circle, has no cluster id, no cluster id having
\* ever been assigned to it, while each on-circle node carries the index of
\* its group and each unclustered node the sentinel -1.
C12_PlaceholderHasNoClusterId ==
    Converted =>
        /\ \A h \in 1..Len(nodes) : nodes[h].child # Root => nodes[h].clusterId = Null
        /\ MemberClusterIds

\* C12 (amended): after convertToClusteredGraph a cluster placeholder
\* carries as its cluster id the index of the cluster whose circle it owns,
\* each on-circle node carries the index of its group and each unclustered
\* node the sentinel -1.
C12_ClusterIds ==
    Converted =>
        /\ \A h \in 1..Len(nodes) :
              nodes[h].child # Root => nodes[h].clusterId = Some(nodes[h].child - 1)
        /\ MemberClusterIds

\* A converted graph with the placeholder of a second cluster, a member of
\* that cluster and an unclustered node
C12_Witness ==
    /\ pc = "built"
    /\ \E p, m, u \in 1..Len(nodes) :
          /\ nodes[p].child = 2 /\ nodes[p].clusterId = Some(1)
          /\ nodes[m].onCircle /\ nodes[m].owner = 2 /\ nodes[m].clusterId = Some(1)
          /\ nodes[u].clusterId = Some(UNCLUSTERED)

----------------------------------------------------------------------------
(* Properties of the sizing of step 1 *)

AfterStep1 == pc \in {"step1", "step2", "prepared"}

\* The widths and heights of the on-circle nodes of circle k
OnCircleDimensions(k) ==
    {nodes[h].w : h \in OnCircleSet(k)} \cup {nodes[h].h : h \in OnCircleSet(k)}

Largest(S) == CHOOSE d \in S : \A x \in S : x <= d

\* C13: after doStep1 every circle with at least one on-circle node has the
\* radius the circular layout returned for it, and its placeholder node has
\* width and height 2 * (radius + margin) + the largest width or height
\* among the on-circle nodes of the circle, the margin being the margin of
\* the base graph plus 15.
C13_RadiusAndParentDimension ==
    AfterStep1 =>
        \A k \in 1..Len(circles) :
            OnCircleSet(k) # {} =>
                LET parent == nodes[circles[k].parent]
                    dimension == 2 * (circles[k].radius + circles[k].margin)
                                     + Largest(OnCircleDimensions(k))
                IN  /\ circles[k].radius = avsdf[k].radius
                    /\ circles[k].margin = DEFAULT_GRAPH_MARGIN + 15
                    /\ parent.w = dimension
                    /\ parent.h = dimension

\* After doStep1, a circle of the largest radius whose largest dimension is
\* the height of one of its nodes, and another circle whose largest dimension
\* is a width
C13_Witness ==
    /\ pc = "step1"
    /\ \E k, l \in 1..Len(circles) :
          /\ circles[k].radius = MaxRadius
          /\ Cardinality(OnCircleSet(k)) = 2
          /\ \E h \in OnCircleSet(k) :
                /\ nodes[h].h = Largest(OnCircleDimensions(k))
                /\ \A g \in OnCircleSet(k) : nodes[g].w < nodes[h].h
          /\ \E h \in OnCircleSet(l) :
                /\ nodes[h].w = Largest(OnCircleDimensions(l))
                /\ nodes[h].h < nodes[h].w
          /\ nodes[circles[k].parent].w # nodes[circles[l].parent].w

\* C14: doStep1 skips the sizing of a circle with no on-circle node and goes
\* on: the radius of such a circle is 0 before and after, the location, the
\* width and the height of its placeholder node are the ones it had before,
\* the step ends normally, and every circle that has on-circle nodes, before
\* or after the empty one, has got its indices and its radius.
C14_EmptyCircleSkipped ==
    [][(pc = "built" /\ pc' # pc) =>
          /\ pc' = "step1"
          /\ \A k \in 1..Len(circles) :
                LET parent == circles[k].parent
                IN  IF circles[k].onCircleNodes = <<>>
                    THEN /\ circles[k].radius = 0
                         /\ circles'[k].radius = 0
                         /\ nodes'[parent].loc = nodes[parent].loc
                         /\ nodes'[parent].w = nodes[parent].w
                         /\ nodes'[parent].h = nodes[parent].h
                    ELSE /\ circles'[k].radius = avsdf'[k].radius
                         /\ circles'[k].radius > 0
                         /\ \A h \in Range(circles'[k].onCircleNodes) :
                               nodes'[h].index # Null]_vars

\* After doStep1, an empty first circle left as it was built and a second
\* circle that was sized
C14_Witness ==
    /\ pc = "step1"
    /\ Len(circles) = 2
    /\ circles[1].onCircleNodes = <<>>
    /\ circles[1].radius = 0
    /\ nodes[circles[1].parent].w = 0
    /\ circles[2].onCircleNodes # <<>>
    /\ circles[2].radius > 0
    /\ nodes[circles[2].parent].w > 0

----------------------------------------------------------------------------
(* Properties of the graph manager's node partition *)

\* The nodes created for the members of the cluster groups, the cluster
\* placeholders, and the nodes created for the ids no group lists
MemberNodes == {h \in 1..Len(nodes) : nodes[h].child = Root /\ GroupOf(nodes[h].id) # 0}
PlaceholderNodes == {h \in 1..Len(nodes) : nodes[h].child # Root}
UnclusteredNodes == {h \in 1..Len(nodes) : nodes[h].child = Root /\ GroupOf(nodes[h].id) = 0}

\* C15: after convertToClusteredGraph the graph manager's on-circle and
\* non-on-circle node lists are disjoint, hold no node twice and together
\* hold every node of the model; the on-circle list holds exactly the nodes
\* created for cluster members, the non-on-circle list exactly the cluster
\* placeholders and the unclustered nodes.
C15_GraphManagerPartition ==
    Converted =>
        /\ Range(gm.onCircleNodes) \cap Range(gm.nonOnCircleNodes) = {}
        /\ NoRepeat(gm.onCircleNodes)
        /\ NoRepeat(gm.nonOnCircleNodes)
        /\ Range(gm.onCircleNodes) \cup Range(gm.nonOnCircleNodes) = 1..Len(nodes)
        /\ Range(gm.onCircleNodes) = MemberNodes
        /\ Range(gm.nonOnCircleNodes) = PlaceholderNodes \cup UnclusteredNodes
        /\ Len(circles) = Cardinality(PlaceholderNodes)

\* A converted graph with two placeholders, a member and an unclustered node
C15_Witness ==
    /\ pc = "built"
    /\ Cardinality(PlaceholderNodes) = 2
    /\ MemberNodes # {}
    /\ UnclusteredNodes # {}
    /\ Len(gm.onCircleNodes) + Len(gm.nonOnCircleNodes) = Len(nodes)

----------------------------------------------------------------------------
(* Properties of the sort and of the range of the representative index *)

\* C16: the indices gathered for one reduced edge are in ascending numeric
\* order, and are the gathered indices, when the search for the largest gap
\* starts, for every circle size, circles of 10 or more on-circle nodes
\* included (indices 3, 6, 12 are ordered 3, 6, 12).
C16_SortedNumerically ==
    reorder.averageIndex # Null =>
        /\ Ascending(reorder.sorted)
        /\ IsPermutationOf(reorder.sorted, reorder.gathered)
        /\ reorder.gathered = <<3, 6, 12>> => reorder.sorted = <<3, 6, 12>>

\* C18: for every circle of N on-circle nodes and every non-empty list of
\* indices in 0..N-1, in whatever order the sort leaves them, the
\* representative index r stored for the reduced edge satisfies 0 <= r < N,
\* and for a list of the single index a it is a.
C18_RepresentativeIndexInRange ==
    reorder.averageIndex # Null =>
        LET f == reorder.averageIndex[1]
            N == reorder.mod
        IN  /\ f.den > 0
            /\ 0 <= f.num
            /\ f.num < N * f.den
            /\ Len(reorder.gathered) = 1 => f.num = reorder.gathered[1] * f.den

\* The indices 12, 12, 0 gathered on a circle of 13: the two 12s are taken
\* as -1, the average -2/3 is negative and 13 is added to it
C18_Witness ==
    /\ reorder.mod = 13
    /\ reorder.gathered = <<12, 12, 0>>
    /\ reorder.adjusted = <<0, 0 - 1, 0 - 1>>
    /\ reorder.averageIndex = Some([num |-> 37, den |-> 3])

----------------------------------------------------------------------------
(* Properties of the step and phase fields *)

StepNames == {"STEP_NOT_STARTED", "STEP_1", "STEP_2", "STEP_3", "STEP_4", "STEP_5"}
PhaseNames == {"PHASE_NOT_STARTED", "PHASE_SWAP_PREPERATION", "PHASE_PERFORM_SWAP",
               "PHASE_OTHER"}

\* The field holds the declared constant of that name
Holds(field, name) == field = Some(CiSELayoutInstance(name))

\* C17: step and phase follow the declared state machine: a new layout has
\* step = STEP_NOT_STARTED (0) and phase = PHASE_NOT_STARTED (0), after
\* doStep1 step = STEP_1 (1) and phase = PHASE_OTHER (3), after doStep2
\* step = STEP_2 (2) and phase = PHASE_OTHER (3), and at every point step
\* is one of the declared values 0..5 and phase one of 0..3.
C17_StepPhaseStateMachine ==
    /\ pc \in {"constructed", "built", "threw"} =>
           Holds(step, "STEP_NOT_STARTED") /\ Holds(phase, "PHASE_NOT_STARTED")
    /\ pc = "step1" => Holds(step, "STEP_1") /\ Holds(phase, "PHASE_OTHER")
    /\ pc \in {"step2", "prepared"} => Holds(step, "STEP_2") /\ Holds(phase, "PHASE_OTHER")
    /\ \E name \in StepNames : Holds(step, name)
    /\ \E name \in PhaseNames : Holds(phase, name)

====
